---- MODULE Spec2Model ----
(***************************************************************************)
(* Model of the weighted-graph engine: Graph / generate_edges, the Path    *)
(* value type, the all-destinations Bellman-Ford of lib.rs, and the        *)
(* best-first search, single-target Bellman-Ford and path enumeration of   *)
(* pathfinder.rs / graph.rs.                                               *)
(*                                                                         *)
(* A graph is the node map: a function from the keys present in the map to *)
(* the node value, which is the ordered list of the node's connections     *)
(* [b, h].  A connection of the node stored under key k becomes the edge   *)
(* [id, a |-> k, b, h].                                                    *)
(***************************************************************************)
EXTENDS Integers, Sequences, FiniteSets, TLC

VARIABLES
    map,          \* Graph.map: key -> node value (sequence of connections)
    from,         \* the source key of the call
    to,           \* the target key of the call (a_star, single-target bellman_ford)
    pc,           \* position of the running call
    i,            \* rounds of the relaxation loop completed
    paths,        \* lib.rs bellman_ford: vertex -> [cost, edge]
    open_heap,    \* a_star: open_paths, the BinaryHeap of SharedPaths (a set)
    closed_nodes, \* a_star: keys already closed
    all_paths,    \* a_star: the result Vec
    opened,       \* a_star: the path the loop popped last (None before)
    best_paths,   \* single-target bellman_ford: key -> best Path so far
    keys,         \* single-target bellman_ford: keys of this round still to visit
    current_path, \* single-target bellman_ford: the path of the key being visited
    outgoing_edges, \* single-target bellman_ford: edges of that key still to relax
    updated,      \* single-target bellman_ford: the round's updated flag
    open_paths,   \* Graph::map: the stack (Vec) of open SharedPaths
    allpaths,     \* Graph::map: key -> Vec of the paths recorded under it
    ret           \* the value the call returned (or how it ended)

vars == <<map, from, to, pc, i, paths, open_heap, closed_nodes, all_paths, opened,
          best_paths, keys, current_path, outgoing_edges, updated,
          open_paths, allpaths, ret>>

bfVars    == <<i, paths>>
astarVars == <<open_heap, closed_nodes, all_paths, opened>>
bf1Vars   == <<best_paths, keys, current_path, outgoing_edges, updated>>
mapVars   == <<open_paths, allpaths>>

----------------------------------------------------------------------------
(* Bounds of the model *)

MaxNodes == 3      \* keys a graph may use
MapMaxNodes == 4   \* keys a graph offered to Graph::map may use
MaxEdges == 3      \* connections of a graph (a_star, single-target bellman_ford, map)
BfMaxEdges == 4    \* connections of a graph offered to lib.rs bellman_ford

Nodes == 1..MaxNodes

\* weights offered to lib.rs bellman_ford (negative weights allowed)
BfWeights == {-1, 1}

None == [kind |-> "None"]

----------------------------------------------------------------------------
(* Generic helpers *)

Put(f, k, v) == [x \in (DOMAIN f) \cup {k} |-> IF x = k THEN v ELSE f[x]]

Orders(S) == {s \in [1..Cardinality(S) -> S] : \A x \in S : \E k \in DOMAIN s : s[k] = x}

RECURSIVE SumH(_)
SumH(es) == IF es = <<>> THEN 0 ELSE es[1].h + SumH(Tail(es))

Reverse(s) == [k \in 1..Len(s) |-> s[Len(s) + 1 - k]]

Min(S) == CHOOSE x \in S : \A y \in S : x <= y

Range(s) == {s[k] : k \in DOMAIN s}

----------------------------------------------------------------------------
(* MapInGraphs(N, W, m): map is a node map over the keys 1..N with at most  *)
(* m connections, weights in W.  A key may be absent from the map, present  *)
(* without connections, or the destination of a connection without being a *)
(* key of the map.                                                          *)

Conns(N, W) == [b : 1..N, h : W]

\* map is g extended over some of the keys 1..k, with at most budget
\* connections more
RECURSIVE MapExtends(_, _, _, _, _)
MapExtends(g, k, budget, N, W) ==
    IF k = 0 THEN map = g
    ELSE \/ MapExtends(g, k - 1, budget, N, W)
         \/ \E d \in 0..budget : \E s \in [1..d -> Conns(N, W)] :
               MapExtends(g @@ (k :> s), k - 1, budget - d, N, W)

MapInGraphs(N, W, m) == MapExtends(<<>>, N, m, N, W)

----------------------------------------------------------------------------
(* Graph::generate_edges *)

generate_edges(key) ==
    IF key \in DOMAIN map
    THEN [k \in 1..Len(map[key]) |->
            [id |-> k - 1, a |-> key, b |-> map[key][k].b, h |-> map[key][k].h]]
    ELSE <<>>

----------------------------------------------------------------------------
(* Values the variables of a call hold while another call is modelled *)

AStarIdle ==
    /\ open_heap = {}
    /\ closed_nodes = {}
    /\ all_paths = <<>>
    /\ opened = None

MapIdle ==
    /\ open_paths = <<>>
    /\ allpaths = <<>>

Bf1Idle ==
    /\ best_paths = <<>>
    /\ keys = <<>>
    /\ current_path = None
    /\ outgoing_edges = <<>>
    /\ updated = FALSE

BfIdle ==
    /\ i = 0
    /\ paths = <<>>

----------------------------------------------------------------------------
(* lib.rs  pathfinder::Pathfind::bellman_ford (all destinations)            *)

\* let n = map_keys.len()
n == Cardinality(DOMAIN map)

\* for edge in generate_edges(from) { paths.insert(edge.b, (edge.h, edge)) }
RECURSIVE SeedPaths(_, _)
SeedPaths(ps, edges) ==
    IF edges = <<>> THEN ps
    ELSE SeedPaths(Put(ps, edges[1].b, [cost |-> edges[1].h, edge |-> edges[1]]),
                   Tail(edges))

\* the loop condition of `for _ in 0..(n - 1)` after k rounds.  n - 1 is a
\* usize subtraction: with n = 0 a release build wraps to 2^64 - 1, a bound
\* no reachable round count attains (a debug build panics, see BfStart).
RoundsLeft(k) == IF n = 0 THEN TRUE ELSE k < n - 1

\* a faulty inner loop: every edge overwrites the entry of its destination,
\* as the seeding does, without comparing costs
RECURSIVE RelaxEdgesUnconditional(_, _, _)
RelaxEdgesUnconditional(acc, cost, edges) ==
    IF edges = <<>> THEN acc
    ELSE RelaxEdgesUnconditional(
             [p |-> Put(acc.p, edges[1].b,
                        [cost |-> cost + edges[1].h, edge |-> edges[1]]),
              u |-> acc.u \/ edges[1].b \notin DOMAIN acc.p],
             cost, Tail(edges))

\* the inner loop over new_edges for one (cost, pred_edge) of current_paths;
\* acc = [p |-> paths, u |-> updated]
RECURSIVE RelaxEdges(_, _, _)
RelaxEdges(acc, cost, edges) ==
    IF edges = <<>> THEN acc
    ELSE LET new_edge == edges[1]
             new_cost == cost + new_edge.h
             better   == IF new_edge.b \in DOMAIN acc.p
                         THEN new_cost < acc.p[new_edge.b].cost
                         ELSE TRUE
             nxt      == IF better
                         THEN [p |-> Put(acc.p, new_edge.b,
                                         [cost |-> new_cost, edge |-> new_edge]),
                               u |-> TRUE]
                         ELSE acc
         IN  RelaxEdges(nxt, cost, Tail(edges))

\* one relaxation round: current_paths (the snapshot) is iterated in the
\* hash map's order, given here as the sequence `order` of its keys
RECURSIVE RelaxRound(_, _, _)
RelaxRound(acc, current_paths, order) ==
    IF order = <<>> THEN acc
    ELSE LET entry == current_paths[order[1]]
         IN  RelaxRound(RelaxEdges(acc, entry.cost, generate_edges(entry.edge.b)),
                        current_paths, Tail(order))

\* the extra iteration: the first edge, in iteration order, that still relaxes.
\* paths.get(&new_edge.b).unwrap() panics on a missing entry.
RECURSIVE FirstRelaxableEdge(_, _)
FirstRelaxableEdge(cost, edges) ==
    IF edges = <<>> THEN [kind |-> "none"]
    ELSE IF edges[1].b \notin DOMAIN paths THEN [kind |-> "panic"]
    ELSE IF cost + edges[1].h < paths[edges[1].b].cost
         THEN [kind |-> "found", edge |-> edges[1]]
         ELSE FirstRelaxableEdge(cost, Tail(edges))

RECURSIVE FirstRelaxable(_)
FirstRelaxable(order) ==
    IF order = <<>> THEN [kind |-> "none"]
    ELSE LET entry == paths[order[1]]
             r     == FirstRelaxableEdge(entry.cost, generate_edges(entry.edge.b))
         IN  IF r.kind = "none" THEN FirstRelaxable(Tail(order)) ELSE r

\* for _ in 0..n { cycle_vertex = paths.get(&cycle_vertex).unwrap().1.a }
RECURSIVE FollowPred(_, _)
FollowPred(cycle_vertex, k) ==
    IF k = 0 THEN [kind |-> "at", v |-> cycle_vertex]
    ELSE IF cycle_vertex \notin DOMAIN paths THEN [kind |-> "Panic"]
    ELSE FollowPred(paths[cycle_vertex].edge.a, k - 1)

\* loop { push paths[cycle_vertex].1; cycle_vertex = edge.a; break at start }
\* fuel: after more steps than paths has entries the walk can never come
\* back to start, and the loop runs (and allocates) for ever.
RECURSIVE CollectCycle(_, _, _, _)
CollectCycle(cycle_vertex, start, negative_cycle, fuel) ==
    IF cycle_vertex \notin DOMAIN paths THEN [kind |-> "Panic"]
    ELSE LET edge == paths[cycle_vertex].edge
             acc  == Append(negative_cycle, edge)
         IN  IF edge.a = start THEN [kind |-> "Err", cycle |-> acc]
             ELSE IF fuel = 0 THEN [kind |-> "Diverge"]
             ELSE CollectCycle(edge.a, start, acc, fuel - 1)

ReconstructCycle(new_edge) ==
    LET w == FollowPred(new_edge.b, n)
    IN  IF w.kind = "Panic" THEN w
        ELSE CollectCycle(w.v, w.v, <<>>, Cardinality(DOMAIN paths))

\* while let Some(prev) = paths.get(&current_edge.a) { ... } of the result
\* construction; the edges are collected destination first
RECURSIVE CollectPath(_, _, _)
CollectPath(current_edge, path, fuel) ==
    IF current_edge.a \notin DOMAIN paths THEN [ok |-> TRUE, path |-> path]
    ELSE IF current_edge.a = from
         THEN [ok |-> TRUE, path |-> Append(path, current_edge)]
    ELSE IF fuel = 0 THEN [ok |-> FALSE, path |-> path]
    ELSE CollectPath(paths[current_edge.a].edge, Append(path, current_edge), fuel - 1)

RoutePath(vertex) == CollectPath(paths[vertex].edge, <<>>, Cardinality(DOMAIN paths))

\* rpaths: vertex -> (cost, path.reverse())
BuildRpaths ==
    IF \E v \in DOMAIN paths : ~RoutePath(v).ok
    THEN [kind |-> "Diverge"]
    ELSE [kind |-> "Ok",
          map  |-> [v \in DOMAIN paths |->
                       [cost |-> paths[v].cost, path |-> Reverse(RoutePath(v).path)]]]

BfStart ==
    /\ pc = "bf_start"
    /\ paths' = SeedPaths(<<>>, generate_edges(from))
    /\ \/ /\ n = 0                       \* debug build: n - 1 overflows
          /\ pc' = "done"
          /\ ret' = [kind |-> "Panic"]
       \/ /\ pc' = IF RoundsLeft(0) THEN "bf_relax" ELSE "bf_detect"
          /\ ret' = ret
    /\ UNCHANGED <<mapVars, map, from, to, i, astarVars, bf1Vars>>

BfRound ==
    /\ pc = "bf_relax"
    /\ \E order \in Orders(DOMAIN paths) :
          LET r == RelaxRound([p |-> paths, u |-> FALSE], paths, order)
          IN  /\ paths' = r.p
              /\ pc' = IF r.u /\ RoundsLeft(i + 1) THEN "bf_relax" ELSE "bf_detect"
    /\ i' = i + 1
    /\ UNCHANGED <<mapVars, map, from, to, ret, astarVars, bf1Vars>>

BfDetect ==
    /\ pc = "bf_detect"
    /\ \E order \in Orders(DOMAIN paths) :
          LET f == FirstRelaxable(order)
          IN  \/ /\ f.kind = "none"
                 /\ pc' = "bf_build"
                 /\ ret' = ret
              \/ /\ f.kind = "panic"
                 /\ pc' = "done"
                 /\ ret' = [kind |-> "Panic"]
              \/ /\ f.kind = "found"
                 /\ pc' = "done"
                 /\ ret' = ReconstructCycle(f.edge)
    /\ UNCHANGED <<mapVars, map, from, to, i, paths, astarVars, bf1Vars>>

BfBuild ==
    /\ pc = "bf_build"
    /\ ret' = BuildRpaths
    /\ pc' = "done"
    /\ UNCHANGED <<mapVars, map, from, to, i, paths, astarVars, bf1Vars>>

\* the node maps of MapInGraphs are closed under renaming the nodes, so the call's source is
\* fixed to the least node.
InitBf ==
    /\ MapInGraphs(MaxNodes, BfWeights, BfMaxEdges)
    /\ from = Min(Nodes)
    /\ to = from
    /\ pc = "bf_start"
    /\ i = 0
    /\ paths = <<>>
    /\ AStarIdle
    /\ Bf1Idle
    /\ MapIdle
    /\ ret = None

NextBf == BfStart \/ BfRound \/ BfDetect \/ BfBuild

SpecBf == InitBf /\ [][NextBf]_vars

----------------------------------------------------------------------------
(* Reference notions the claims are stated with (graph theory over the     *)
(* edges generate_edges yields, independent of the algorithms).            *)

\* <<v, c>>: some walk of exactly k >= 1 edges from u ends at v with total c
RECURSIVE Walks(_, _)
Walks(u, k) ==
    IF k = 1 THEN {<<e.b, e.h>> : e \in Range(generate_edges(u))}
    ELSE UNION {{<<e.b, w[2] + e.h>> : e \in Range(generate_edges(w[1]))} :
                w \in Walks(u, k - 1)}

\* the nodes of the graph: the keys of the map and the destinations
GraphNodes == (DOMAIN map) \cup {c.b : c \in UNION {Range(map[k]) : k \in DOMAIN map}}

\* walks of at most as many edges as the graph has nodes: every node
\* reachable by a walk of one or more edges is the end of one of them, and
\* every simple cycle is one of them
ShortWalks(u) == UNION {Walks(u, k) : k \in 1..Cardinality(GraphNodes)}

Reach(u) == {w[1] : w \in ShortWalks(u)}

NegativeCycleAt(v) == \E w \in ShortWalks(v) : w[1] = v /\ w[2] < 0

NegativeCycleReachable == \E v \in Reach(from) \cup {from} : NegativeCycleAt(v)

\* without a reachable negative cycle the cheapest walk is a short one
MinWalk(v) == Min({w[2] : w \in {x \in ShortWalks(from) : x[1] = v}})

\* the edge sequences of the simple paths that start at u and avoid `seen`
RECURSIVE SimplePathsFrom(_, _)
SimplePathsFrom(u, seen) ==
    UNION {{<<e>>} \cup {<<e>> \o p : p \in SimplePathsFrom(e.b, seen \cup {e.b})} :
           e \in {x \in Range(generate_edges(u)) : x.b \notin seen}}

SimplePaths == SimplePathsFrom(from, {from})

SimplePathsTo(v) == {p \in SimplePaths : p[Len(p)].b = v}

MinSimple(v) == Min({SumH(p) : p \in SimplePathsTo(v)})

Contiguous(es) == \A k \in 1..(Len(es) - 1) : es[k].b = es[k + 1].a

----------------------------------------------------------------------------
(* path.rs  Path, and graph.rs  Graph::propagate_path                       *)

Last(s) == s[Len(s)]

\* a faulty ordering: the natural one, self.total.cmp(&other.total)
path_cmp_natural(self, other) ==
    IF self.total < other.total THEN "Less"
    ELSE IF self.total = other.total THEN "Equal"
    ELSE "Greater"

\* Ord for Path: other.total.cmp(&self.total); SharedPath delegates to it
path_cmp(self, other) ==
    IF other.total < self.total THEN "Less"
    ELSE IF other.total = self.total THEN "Equal"
    ELSE "Greater"

\* one extension of propagate_path: from's path with edge appended
ExtendPath(path, edge) ==
    [total |-> path.total + edge.h,
     path  |-> Append(path.path, edge),
     nodes |-> path.nodes \cup {edge.b}]

\* a faulty propagate_path: only the first outgoing edge extends the path
propagate_path_first(path) ==
    LET edges == generate_edges(Last(path.path).b)
    IN  IF edges = <<>> THEN <<>> ELSE <<ExtendPath(path, edges[1])>>

\* graph.rs propagate_path: one new path per outgoing edge of the last node
propagate_path(path) ==
    LET edges == generate_edges(Last(path.path).b)
    IN  [k \in 1..Len(edges) |-> ExtendPath(path, edges[k])]

----------------------------------------------------------------------------
(* pathfinder.rs  a_star                                                    *)

\* weights offered to a_star; the claims about minimum totals assume them
\* non-negative, the others hold for every weight
AStarWeights == {-1, 0, 1, 3}

\* the Path a_star seeds the heap with for edge e of the source
AStarSeed(e) == [total |-> e.h, path |-> <<e>>, nodes |-> {e.a, e.b}]

\* a faulty pop: any element of the frontier, as from an unordered collection
HeapTopAny(heap) == heap

\* BinaryHeap::pop yields a greatest element of the Ord; which one among
\* equal elements is not specified
HeapTop(heap) == {p \in heap : \A q \in heap : path_cmp(q, p) # "Greater"}

AStarStart ==
    /\ pc = "as_start"
    /\ open_heap' = {AStarSeed(e) : e \in Range(generate_edges(from))}
    /\ pc' = "as_loop"
    /\ UNCHANGED <<mapVars, map, from, to, bfVars, bf1Vars, closed_nodes, all_paths, opened, ret>>

\* one iteration of `while let Some(open) = open_paths.pop()`
AStarPop ==
    /\ pc = "as_loop"
    /\ \E open \in HeapTop(open_heap) :
          LET last == Last(open.path)
              rest == open_heap \ {open}
          IN  /\ opened' = open
              /\ IF last.b \in closed_nodes
                 THEN /\ open_heap' = rest
                      /\ UNCHANGED <<closed_nodes, all_paths, pc, ret>>
                 ELSE /\ closed_nodes' = closed_nodes \cup {last.b}
                      /\ IF last.b = to
                         THEN /\ all_paths' = Append(all_paths, open)
                              /\ open_heap' = rest
                              /\ pc' = "done"
                              /\ ret' = [kind |-> "Paths", paths |-> all_paths']
                         ELSE /\ open_heap' = rest \cup Range(propagate_path(open))
                              /\ UNCHANGED <<all_paths, pc, ret>>
    /\ UNCHANGED <<mapVars, map, from, to, bfVars, bf1Vars>>

\* the heap is empty: the loop ends and all_paths is returned
AStarReturn ==
    /\ pc = "as_loop"
    /\ open_heap = {}
    /\ pc' = "done"
    /\ ret' = [kind |-> "Paths", paths |-> all_paths]
    /\ UNCHANGED <<mapVars, map, from, to, bfVars, astarVars, bf1Vars>>

InitAStar ==
    /\ MapInGraphs(MaxNodes, AStarWeights, MaxEdges)
    /\ from = Min(Nodes)
    /\ to \in Nodes
    /\ pc = "as_start"
    /\ BfIdle
    /\ AStarIdle
    /\ Bf1Idle
    /\ MapIdle
    /\ ret = None

NextAStar == AStarStart \/ AStarPop \/ AStarReturn

SpecAStar == InitAStar /\ [][NextAStar]_vars

\* the call is one sequential loop: a step that is enabled is taken
SpecAStarFair == SpecAStar /\ WF_vars(NextAStar)

----------------------------------------------------------------------------
(* pathfinder.rs  bellman_ford (single target)                              *)

Bf1Weights == {-1, 0, 1}

\* let num_nodes = self.map.len()
num_nodes == Cardinality(DOMAIN map)

\* the loop condition of `for _ in 0..(num_nodes - 1)` after k rounds; with
\* num_nodes = 0 the usize subtraction wraps to 2^64 - 1 in a release build
\* (a debug build panics, see Bf1Start)
Bf1RoundsLeft(k) == IF num_nodes = 0 THEN TRUE ELSE k < num_nodes - 1

\* init_path: cost zero, no edge, the source visited
InitPath == [total |-> 0, path |-> <<>>, nodes |-> {from}]

\* a faulty skip test: no edge is ever skipped
SkipEdgeNever(edge) == FALSE

\* if current_path.inner.nodes.contains(&edge.b) { continue; }
SkipEdge(edge) == edge.b \in current_path.nodes

\* the relax decision for edge, reached with total new_total
Relax(edge, new_total) ==
    IF edge.b \in DOMAIN best_paths
    THEN new_total < best_paths[edge.b].total
    ELSE TRUE

Bf1Start ==
    /\ pc = "b1_start"
    /\ best_paths' = (from :> InitPath)
    /\ \/ /\ num_nodes = 0               \* debug build: num_nodes - 1 overflows
          /\ pc' = "done"
          /\ ret' = [kind |-> "Panic"]
       \/ /\ pc' = IF Bf1RoundsLeft(0) THEN "b1_round" ELSE "b1_return"
          /\ ret' = ret
    /\ UNCHANGED <<mapVars, map, from, to, bfVars, astarVars, keys, current_path, outgoing_edges, updated>>

\* a round begins: updated = false, the keys of best_paths are collected in
\* the hash map's iteration order
Bf1Round ==
    /\ pc = "b1_round"
    /\ updated' = FALSE
    /\ keys' \in Orders(DOMAIN best_paths)
    /\ pc' = "b1_key"
    /\ UNCHANGED <<mapVars, map, from, to, bfVars, astarVars, best_paths, current_path, outgoing_edges, ret>>

\* the next node_key of the round: its path is cloned, its edges generated
Bf1Key ==
    /\ pc = "b1_key"
    /\ keys # <<>>
    /\ current_path' = best_paths[Head(keys)]
    /\ outgoing_edges' = generate_edges(Head(keys))
    /\ keys' = Tail(keys)
    /\ pc' = "b1_edge"
    /\ UNCHANGED <<mapVars, map, from, to, bfVars, astarVars, best_paths, updated, ret>>

\* one outgoing edge of the node_key
Bf1Edge ==
    /\ pc = "b1_edge"
    /\ outgoing_edges # <<>>
    /\ LET edge      == Head(outgoing_edges)
           new_total == current_path.total + edge.h
       IN  IF ~SkipEdge(edge) /\ Relax(edge, new_total)
           THEN /\ best_paths' = Put(best_paths, edge.b,
                                     [total |-> new_total,
                                      nodes |-> current_path.nodes \cup {edge.b},
                                      path  |-> Append(current_path.path, edge)])
                /\ updated' = TRUE
           ELSE UNCHANGED <<best_paths, updated>>
    /\ outgoing_edges' = Tail(outgoing_edges)
    /\ UNCHANGED <<mapVars, map, from, to, pc, bfVars, astarVars, keys, current_path, ret>>

\* the edges of the node_key are exhausted
Bf1EdgesDone ==
    /\ pc = "b1_edge"
    /\ outgoing_edges = <<>>
    /\ pc' = "b1_key"
    /\ UNCHANGED <<mapVars, map, from, to, bfVars, astarVars, bf1Vars, ret>>

\* the keys of the round are exhausted: break if nothing was updated
Bf1RoundEnd ==
    /\ pc = "b1_key"
    /\ keys = <<>>
    /\ i' = i + 1
    /\ pc' = IF updated /\ Bf1RoundsLeft(i + 1) THEN "b1_round" ELSE "b1_return"
    /\ UNCHANGED <<mapVars, map, from, to, paths, astarVars, bf1Vars, ret>>

\* best_paths.remove(target)
Bf1Return ==
    /\ pc = "b1_return"
    /\ ret' = IF to \in DOMAIN best_paths
              THEN [kind |-> "Some", path |-> best_paths[to]]
              ELSE None
    /\ best_paths' = [k \in (DOMAIN best_paths) \ {to} |-> best_paths[k]]
    /\ pc' = "done"
    /\ UNCHANGED <<mapVars, map, from, to, bfVars, astarVars, keys, current_path, outgoing_edges, updated>>

InitBf1 ==
    /\ MapInGraphs(MaxNodes, Bf1Weights, MaxEdges)
    /\ from = Min(Nodes)
    /\ to \in Nodes
    /\ pc = "b1_start"
    /\ BfIdle
    /\ AStarIdle
    /\ Bf1Idle
    /\ MapIdle
    /\ ret = None

NextBf1 ==
    \/ Bf1Start \/ Bf1Round \/ Bf1Key \/ Bf1Edge \/ Bf1EdgesDone
    \/ Bf1RoundEnd \/ Bf1Return

SpecBf1 == InitBf1 /\ [][NextBf1]_vars

----------------------------------------------------------------------------
(* graph.rs  Graph::map                                                     *)

MapWeights == {1}

\* the Path Graph::map seeds the stack with for edge e of the source
MapSeed(edge) == [total |-> edge.h, nodes |-> {edge.a}, path |-> <<edge>>]

\* allpaths.entry(key).or_default().push(path)
Record(all, key, path) ==
    Put(all, key, IF key \in DOMAIN all THEN Append(all[key], path) ELSE <<path>>)

\* for current_path in new_paths { record it; push it back when its new last
\* node is not in its nodes };  acc = [open |-> open_paths, all |-> allpaths]
RECURSIVE RecordExtensions(_, _)
RecordExtensions(acc, new_paths) ==
    IF new_paths = <<>> THEN acc
    ELSE LET current_path_ == new_paths[1]
             new_edge      == Last(current_path_.path)
             all2          == Record(acc.all, new_edge.b, current_path_)
             open2         == IF new_edge.b \notin current_path_.nodes
                              THEN Append(acc.open, current_path_)
                              ELSE acc.open
         IN  RecordExtensions([open |-> open2, all |-> all2], Tail(new_paths))

MapStart ==
    /\ pc = "map_start"
    /\ open_paths' = [k \in DOMAIN generate_edges(from) |-> MapSeed(generate_edges(from)[k])]
    /\ allpaths' = <<>>
    /\ pc' = "map_loop"
    /\ UNCHANGED <<map, from, to, bfVars, astarVars, bf1Vars, ret>>

\* one iteration of `while let Some(old_path) = open_paths.pop()`
MapPop ==
    /\ pc = "map_loop"
    /\ open_paths # <<>>
    /\ LET old_path  == Last(open_paths)
           rest      == SubSeq(open_paths, 1, Len(open_paths) - 1)
           last_node == Last(old_path.path).b
       IN  IF generate_edges(last_node) = <<>>
           THEN /\ allpaths' = Record(allpaths, last_node, old_path)
                /\ open_paths' = rest
           ELSE LET r == RecordExtensions([open |-> rest, all |-> allpaths],
                                          propagate_path(old_path))
                IN  /\ allpaths' = r.all
                    /\ open_paths' = r.open
    /\ UNCHANGED <<map, from, to, pc, bfVars, astarVars, bf1Vars, ret>>

\* the stack is empty: allpaths is returned
MapReturn ==
    /\ pc = "map_loop"
    /\ open_paths = <<>>
    /\ pc' = "done"
    /\ ret' = [kind |-> "Map", map |-> allpaths]
    /\ UNCHANGED <<map, from, to, bfVars, astarVars, bf1Vars, mapVars>>

InitMap ==
    /\ MapInGraphs(MapMaxNodes, MapWeights, MaxEdges)
    /\ from = Min(Nodes)
    /\ to = from
    /\ pc = "map_start"
    /\ BfIdle
    /\ AStarIdle
    /\ Bf1Idle
    /\ MapIdle
    /\ ret = None

NextMap == MapStart \/ MapPop \/ MapReturn

SpecMap == InitMap /\ [][NextMap]_vars

\* the call is one sequential loop: a step that is enabled is taken
SpecMapFair == SpecMap /\ WF_vars(NextMap)

----------------------------------------------------------------------------
(* pathfinder.rs  Pathfind: a_star, then bellman_ford with the same source  *)
(* and target on the same graph                                             *)

AgreeWeights == {0, 1, 3}

\* a_star has returned: its locals are dropped, the collection it returned is
\* kept (in all_paths), and bellman_ford(from, to) is called
CallBellmanFord ==
    /\ pc = "done"
    /\ ret.kind = "Paths"
    /\ all_paths' = ret.paths
    /\ open_heap' = {}
    /\ closed_nodes' = {}
    /\ opened' = None
    /\ ret' = None
    /\ pc' = "b1_start"
    /\ UNCHANGED <<mapVars, map, from, to, bfVars, bf1Vars>>

InitBoth ==
    /\ MapInGraphs(MaxNodes, AgreeWeights, MaxEdges)
    /\ from = Min(Nodes)
    /\ to \in Nodes
    /\ pc = "as_start"
    /\ BfIdle
    /\ AStarIdle
    /\ Bf1Idle
    /\ MapIdle
    /\ ret = None

NextBoth == NextAStar \/ CallBellmanFord \/ NextBf1

SpecBoth == InitBoth /\ [][NextBoth]_vars

----------------------------------------------------------------------------
(* Properties                                                               *)

NonNegativeWeights == \A k \in DOMAIN map : \A c \in Range(map[k]) : c.h >= 0

\* no two connections of the source lead to the same destination
NoParallelSourceEdges ==
    \A j, k \in DOMAIN generate_edges(from) :
        j # k => generate_edges(from)[j].b # generate_edges(from)[k].b

\* es, in the order listed, is a walk that returns to where it starts
ClosedWalk(es) == es # <<>> /\ Contiguous(es) /\ Last(es).b = es[1].a

\* es is a complete route from the source to v
RouteTo(es, v) == es # <<>> /\ es[1].a = from /\ Contiguous(es) /\ Last(es).b = v

\* the nodes a Path's edge list visits, in order, from the source
NodeSeq(p) == <<from>> \o [k \in 1..Len(p.path) |-> p.path[k].b]

\* p is a simple path from the source to k with the right total
SimpleFromSource(k, p) ==
    /\ Contiguous(p.path)
    /\ IF p.path = <<>> THEN k = from ELSE p.path[1].a = from /\ Last(p.path).b = k
    /\ \A x, y \in DOMAIN NodeSeq(p) : x # y => NodeSeq(p)[x] # NodeSeq(p)[y]
    /\ p.total = SumH(p.path)

\* the node set a Path's edge list reconstructs to
NodesOfEdges(p) ==
    IF p.path = <<>> THEN {from}
    ELSE {p.path[1].a} \cup {p.path[k].b : k \in DOMAIN p.path}

\* every Path value a call holds
ConstructedPaths ==
    Range(open_paths) \cup UNION {Range(allpaths[k]) : k \in DOMAIN allpaths}
    \cup open_heap \cup Range(all_paths)
    \cup {best_paths[k] : k \in DOMAIN best_paths}

\* C1: with non-negative weights, a_star to a reachable target other than the
\* source returns a path whose total is the minimum total over all simple
\* paths from the source to the target (and is the sum of its edge weights).
AStarReturnsMinimum ==
    (pc = "done" /\ ret.kind = "Paths" /\ NonNegativeWeights
        /\ to # from /\ to \in Reach(from))
    => /\ ret.paths # <<>>
       /\ ret.paths[1].total = MinSimple(to)
       /\ ret.paths[1].total = SumH(ret.paths[1].path)

\* C1 witness: the scenario A->B (1), B->C (1), A->C (3): a_star returned the
\* two-edge path of total 2 although a direct edge of cost 3 exists.
AStarDetourReturned ==
    /\ pc = "done" /\ ret.kind = "Paths" /\ to # from /\ Len(ret.paths) = 1
    /\ NonNegativeWeights
    /\ LET p == ret.paths[1]
       IN  /\ Len(p.path) = 2
           /\ p.path[1].b \notin {from, to}
           /\ p.total = 2
           /\ \E e \in Range(generate_edges(from)) : e.b = to /\ e.h = 3

\* C2: on a non-empty node map with no negative cycle reachable from the
\* source, the all-destinations bellman_ford returns Ok and reports, for each
\* node reachable from the source, the minimum total weight over all walks.
BfReportsMinimumCosts ==
    (pc = "done" /\ ret.kind # "Paths" /\ n > 0 /\ ~NegativeCycleReachable)
    => /\ ret.kind = "Ok"
       /\ \A v \in Reach(from) :
             v \in DOMAIN ret.map /\ ret.map[v].cost = MinWalk(v)

\* C3: the all-destinations bellman_ford returns Err exactly when a negative
\* cycle is reachable from the source, and Ok otherwise: it always completes.
\* Stated for non-empty node maps whose source has no two edges to the same
\* destination, where the seeding of claim C2 is exact.
BfErrIffNegativeCycle ==
    (pc = "done" /\ n > 0 /\ NoParallelSourceEdges)
    => ret.kind = (IF NegativeCycleReachable THEN "Err" ELSE "Ok")

\* C4: the cycle returned with Err is, in the order listed, a closed walk of
\* strictly negative total weight.  Stated, as C3, where the seeding is exact.
BfCycleIsNegativeClosedWalk ==
    (pc = "done" /\ ret.kind = "Err" /\ NoParallelSourceEdges)
    => ClosedWalk(ret.cycle) /\ SumH(ret.cycle) < 0

\* C5: every entry of the Ok map holds a complete route from the source to
\* its key (non-empty, starting at the source, contiguous, ending at the key)
\* whose weights sum to the stored cost.
BfRoutesComplete ==
    (pc = "done" /\ ret.kind = "Ok")
    => \A v \in DOMAIN ret.map :
          RouteTo(ret.map[v].path, v) /\ SumH(ret.map[v].path) = ret.map[v].cost

\* sp is in the collection the result of Graph::map stores under its end
RecordedInResult(sp) ==
    /\ Last(sp).b \in DOMAIN ret.map
    /\ \E q \in Range(ret.map[Last(sp).b]) : q.path = sp

\* C6: the result of Graph::map holds every simple path from the source, in
\* the collection stored under the key the path ends at.  Stated for the
\* paths the loop is documented to record: every extension (two or more
\* edges), and the single-edge paths into nodes without outgoing edges.
MapHoldsEverySimplePath ==
    (pc = "done" /\ ret.kind = "Map")
    => \A sp \in SimplePaths :
          (Len(sp) >= 2 \/ generate_edges(Last(sp).b) = <<>>) => RecordedInResult(sp)

\* C7: every path recorded by Graph::map has a nodes set of at least its
\* number of edges plus one.
MapNodesCoverEdges ==
    \A k \in DOMAIN allpaths : \A q \in Range(allpaths[k]) :
        Cardinality(q.nodes) >= Len(q.path) + 1

\* C8: every Path constructed by any operation has as nodes exactly the
\* source of its first edge together with the destination of every edge
\* (the source key alone for the zero-length path).
PathRoundTrip == \A p \in ConstructedPaths : p.nodes = NodesOfEdges(p)

\* C9: at every point of single-target bellman_ford every path stored in
\* best_paths under k is a contiguous, simple edge sequence from the source
\* to k whose total is the sum of its weights; so is the path returned.
BestPathsAreSimple ==
    /\ \A k \in DOMAIN best_paths : SimpleFromSource(k, best_paths[k])
    /\ (pc = "done" /\ ret.kind = "Some") => SimpleFromSource(to, ret.path)

\* C9 witness: on a graph with a cycle of non-positive weight, an edge that
\* leads back into the path being extended, and that the relax test alone
\* would have accepted, is about to be skipped.
CycleEdgeSkipped ==
    /\ pc = "b1_edge" /\ outgoing_edges # <<>>
    /\ LET edge == Head(outgoing_edges)
       IN  /\ current_path.path # <<>>
           /\ SkipEdge(edge)
           /\ edge.h <= 0
           /\ Relax(edge, current_path.total + edge.h)

\* C10: on a non-empty node map single-target bellman_ford returns a path
\* exactly when the target is the source or reachable from it.
Bf1ReturnsIffReachable ==
    (pc = "done" /\ ret.kind # "Paths" /\ num_nodes > 0)
    => (ret.kind = "Some" <=> to \in Reach(from) \cup {from})

\* the source has no outgoing edges: an isolated key, or a key absent from
\* the node map (the node map may be empty)
SourceHasNoEdges == generate_edges(from) = <<>>

\* C11: for a source without outgoing edges the all-destinations
\* bellman_ford completes and returns Ok with an empty result map.
BfIsolatedSourceEmpty ==
    (pc = "done" /\ ret.kind # "Paths" /\ SourceHasNoEdges)
    => ret.kind = "Ok" /\ DOMAIN ret.map = {}

\* the a_star half of C11: for a source without outgoing edges a_star to any
\* target returns an empty collection
AStarIsolatedSourceEmpty ==
    (pc = "done" /\ ret.kind = "Paths" /\ SourceHasNoEdges) => ret.paths = <<>>

\* C12: for a source without outgoing edges single-target bellman_ford
\* completes and returns no path, for every target, the source included.
\* Stated for non-empty node maps, where num_nodes - 1 does not overflow.
Bf1IsolatedSourceNone ==
    (pc = "done" /\ ret.kind # "Paths" /\ SourceHasNoEdges /\ num_nodes > 0)
    => ret = None

\* the open stack of Graph::map eventually becomes empty and the call returns
MapTerminates == <>(pc = "done")

\* the branch on top of the open stack ends at a node its nodes set already
\* holds, and that node has outgoing edges to extend it by
RevisitOnTop ==
    /\ pc = "map_loop" /\ open_paths # <<>>
    /\ Last(Last(open_paths).path).b \in Last(open_paths).nodes
    /\ generate_edges(Last(Last(open_paths).path).b) # <<>>

\* a step of the loop pops a branch and records its extensions
MapExpands == pc = "map_loop" /\ open_paths # <<>> /\ allpaths' # allpaths

\* C13: Graph::map terminates on every finite graph, and no branch is popped
\* and extended after its last node was already in its visited set.
MapTerminatesWithoutRevisit ==
    /\ MapTerminates
    /\ [][MapExpands => ~RevisitOnTop]_vars

\* the elements of a set of integers in increasing order: one fixed
\* iteration order of a hash map's entries
RECURSIVE SortedSeq(_)
SortedSeq(S) == IF S = {} THEN <<>> ELSE <<Min(S)>> \o SortedSeq(S \ {Min(S)})

\* the relaxation rounds of the all-destinations bellman_ford, from round k
\* on, when every round iterates the entries in increasing order of the key
RECURSIVE SortedRounds(_, _)
SortedRounds(ps, k) ==
    IF ~RoundsLeft(k) THEN ps
    ELSE LET r == RelaxRound([p |-> ps, u |-> FALSE], ps, SortedSeq(DOMAIN ps))
         IN  IF r.u THEN SortedRounds(r.p, k + 1) ELSE r.p

\* the paths table of the run that iterates in increasing order
SortedRunPaths == SortedRounds(SeedPaths(<<>>, generate_edges(from)), 0)

\* C14: without a reachable negative cycle, the key set and the costs of the
\* paths table after the relaxation rounds, and of the map returned with Ok,
\* are those of the run that iterates in increasing key order, whatever
\* order each round of this run iterated in.
BfCostsOrderIndependent ==
    /\ (pc \in {"bf_detect", "bf_build"} /\ ~NegativeCycleReachable) =>
          /\ DOMAIN paths = DOMAIN SortedRunPaths
          /\ \A v \in DOMAIN paths : paths[v].cost = SortedRunPaths[v].cost
    /\ (pc = "done" /\ ret.kind = "Ok" /\ ~NegativeCycleReachable) =>
          /\ DOMAIN ret.map = DOMAIN SortedRunPaths
          /\ \A v \in DOMAIN ret.map : ret.map[v].cost = SortedRunPaths[v].cost

\* C14 witness: a run returned Ok whose iteration order left another
\* predecessor edge in the table than the increasing order does.
BfOrderChangedPredecessor ==
    /\ pc = "done" /\ ret.kind = "Ok" /\ ~NegativeCycleReachable
    /\ \E v \in DOMAIN paths : paths[v].edge # SortedRunPaths[v].edge

\* C15: on every graph and for every source and target a_star terminates and
\* returns at most one path; it returns one exactly when the target is
\* reachable from the source by a walk of one or more edges, and the path
\* returned is a contiguous edge sequence from the source to the target.
AStarTerminatesWithRoute ==
    /\ <>(pc = "done")
    /\ [](pc = "done" =>
            /\ ret.kind = "Paths"
            /\ Len(ret.paths) <= 1
            /\ ret.paths # <<>> <=> to \in Reach(from)
            /\ ret.paths # <<>> => RouteTo(ret.paths[1].path, to))

\* C15 witness: a_star was called with the source as target and returned a
\* path that leaves the source and comes back to it over two or more edges.
AStarReturnedCycleToSource ==
    /\ pc = "done" /\ ret.kind = "Paths" /\ to = from
    /\ Len(ret.paths) = 1
    /\ Len(ret.paths[1].path) >= 2

\* a step of a_star's loop that removes a path from the frontier; the path
\* removed is opened'
AStarPops == pc = "as_loop" /\ open_heap # {}

\* C16: in every iteration of a_star's loop the path removed from the
\* frontier has a total no greater than that of any path remaining in it; a
\* path is extended or recorded only when its last node was not closed
\* before, so each node is closed at most once; and with non-negative
\* weights the totals of the paths removed, hence of the nodes closed, never
\* decrease.
AStarPopsInOrder ==
    [][AStarPops =>
          /\ \A q \in open_heap \ {opened'} : opened'.total <= q.total
          /\ (closed_nodes' # closed_nodes \/ all_paths' # all_paths
                \/ ~(open_heap' \subseteq open_heap))
             => /\ Last(opened'.path).b \notin closed_nodes
                /\ closed_nodes' = closed_nodes \cup {Last(opened'.path).b}
          /\ (NonNegativeWeights /\ opened # None) => opened.total <= opened'.total
      ]_vars

\* C16 witness: on a graph with non-negative weights two nodes have been
\* closed, the second by a path of greater total than the first, and a path
\* of still greater total remains in the frontier.
AStarClosedTwoInOrder ==
    /\ pc = "as_loop" /\ NonNegativeWeights /\ opened # None
    /\ Cardinality(closed_nodes) = 2
    /\ Len(opened.path) = 2
    /\ opened.total > opened.path[1].h
    /\ \E q \in open_heap : q.total > opened.total

\* every destination of a connection is a key of the node map
DestinationsAreKeys ==
    \A k \in DOMAIN map : \A c \in Range(map[k]) : c.b \in DOMAIN map

\* the graphs and targets C17 is about
AgreeCase == NonNegativeWeights /\ DestinationsAreKeys /\ to # from

\* bellman_ford has ended after a_star, whose result all_paths holds
BothReturned == pc = "done" /\ ret.kind # "Paths"

\* both found no path, or both a path of the same total, the minimum over the
\* simple paths from the source to the target
BothAgree ==
    \/ ret = None /\ all_paths = <<>>
    \/ /\ ret.kind = "Some" /\ all_paths # <<>>
       /\ ret.path.total = all_paths[1].total
       /\ ret.path.total = MinSimple(to)

\* an edge skipped because its destination is in the current path would not
\* have relaxed
SkipLosesNothing ==
    (pc = "b1_edge" /\ outgoing_edges # <<>> /\ SkipEdge(Head(outgoing_edges)))
    => ~Relax(Head(outgoing_edges), current_path.total + Head(outgoing_edges).h)

\* C17: on every graph with non-negative weights whose destinations are all
\* keys of the node map, and every target other than the source, single-target
\* bellman_ford and a_star agree, and no skipped edge would have relaxed.
BothAlgorithmsAgree ==
    AgreeCase => /\ BothReturned => BothAgree
                 /\ SkipLosesNothing

\* C17 on the node maps that are not empty
BothAlgorithmsAgreeOnNonEmptyMaps == num_nodes > 0 => BothAlgorithmsAgree

====
